---- MODULE Spec2Model ----
(***************************************************************************)
(* Model of fiftyl_toolkit.io.extractor.Data: the channel map, the         *)
(* per-record fragment assembly (_extract), the selector dispatch          *)
(* (_extract_helper) and the public extract entry point.                   *)
(*                                                                         *)
(* Conventions.                                                            *)
(*  - Python text is a tuple of one-character strings, so that lower()     *)
(*    and int() are computed character by character.                       *)
(*  - numpy arrays are 0-indexed functions: a 2-D array is                 *)
(*    [0..rows-1 -> [0..cols-1 -> value]], a 1-D array [0..rows-1 -> v].   *)
(*  - A 64-bit geographic identifier is a tuple of four 16-bit words, most *)
(*    significant word first.                                              *)
(*  - Every value a call can produce (None, an ndarray, a raised           *)
(*    exception, the record list) is a record with the same fields.        *)
(***************************************************************************)
EXTENDS Integers, Sequences, FiniteSets, TLC

VARIABLES _h5_file, _records, _last_extracted_record, _channel_map, call, result

vars == <<_h5_file, _records, _last_extracted_record, _channel_map, call, result>>

----------------------------------------------------------------------------
(* Bounds of the model *)

MaxSamples == 2          \* samples of a fragment: 1..MaxSamples
MaxCollLen == 3          \* enumerated collection selectors have 0..MaxCollLen elements
NumUnknown == 1          \* record ids that are not in the file

----------------------------------------------------------------------------
(* Python values *)

NoRecord == -1           \* None in the _last_extracted_record slot

Value(kind, exc, ndim, shape, data, recs) ==
    [kind |-> kind, exc |-> exc, ndim |-> ndim, shape |-> shape, data |-> data, recs |-> recs]

None == Value("None", "", 0, <<>>, <<>>, {})

Raise(exc) == Value("raise", exc, 0, <<>>, <<>>, {})

Array2(rows, cols, data) == Value("ndarray", "", 2, <<rows, cols>>, data, {})

Array1(rows, data) == Value("ndarray", "", 1, <<rows>>, data, {})

IsArray(v) == v.kind = "ndarray"

IsRaise(v) == v.kind = "raise"

----------------------------------------------------------------------------
(* Text *)

UpperCase == <<"A","B","C","D","E","F","G","H","I","J","K","L","M",
               "N","O","P","Q","R","S","T","U","V","W","X","Y","Z">>

LowerCase == <<"a","b","c","d","e","f","g","h","i","j","k","l","m",
               "n","o","p","q","r","s","t","u","v","w","x","y","z">>

LowerChar(c) ==
    IF \E i \in 1..26 : UpperCase[i] = c
    THEN LowerCase[CHOOSE i \in 1..26 : UpperCase[i] = c]
    ELSE c

\* str.lower()
StrLower(s) == [i \in 1..Len(s) |-> LowerChar(s[i])]

Digits == <<"0","1","2","3","4","5","6","7","8","9">>

IsDigit(c) == \E d \in 1..10 : Digits[d] = c

DigitVal(c) == (CHOOSE d \in 1..10 : Digits[d] = c) - 1

\* int(text) succeeds on a non-empty run of decimal digits (the texts of this
\* model carry no sign, blanks or underscores); otherwise it raises ValueError.
IsIntLiteral(s) == Len(s) > 0 /\ \A i \in 1..Len(s) : IsDigit(s[i])

RECURSIVE IntOfDigits(_, _)
IntOfDigits(s, k) == IF k = 0 THEN 0 ELSE 10 * IntOfDigits(s, k - 1) + DigitVal(s[k])

IntOfStr(s) == IntOfDigits(s, Len(s))

----------------------------------------------------------------------------
(* Class constants *)

channels_per_link == 64

ChannelMapTable ==
    <<112, 113, 115, 116, 118, 119, 120, 121, 123, 124, 126, 127,
      64, 65, 67, 68, 70, 71, 72, 73, 75, 76, 78, 79,
      48, 49, 51, 52, 54, 55, 56, 57, 59, 60, 62, 63,
      0, 1, 3, 4, 6, 7, 8, 9, 11, 12, 14, 15,
      50, 53, 58, 61, 2, 5, 10, 13,
      16, 17, 18, 19, 20, 21, 22, 23, 24, 25, 26, 27, 28, 29, 30, 31,
      32, 33, 34, 35, 36, 37, 38, 39, 40, 41, 42, 43, 44, 45, 46, 47,
      80, 81, 82, 83, 84, 85, 86, 87, 88, 89, 90, 91, 92, 93, 94, 95,
      96, 97, 98, 99, 100, 101, 102, 103, 104, 105, 106, 107, 108, 109, 110, 111,
      114, 117, 122, 125, 66, 69, 74, 77>>

\* mutant: a table with a repeated entry (112 at positions 0 and 1)
ChannelMapInitRepeated == [p \in 0..(Len(ChannelMapTable) - 1) |-> ChannelMapTable[IF p = 1 THEN 1 ELSE p + 1]]

\* np.array([...]) indexed by logical position 0..127
ChannelMapInit == [p \in 0..(Len(ChannelMapTable) - 1) |-> ChannelMapTable[p + 1]]

----------------------------------------------------------------------------
(* The capture file (external reader and unpacker) *)

NumRecords == 3

Records == 1..NumRecords

UnknownRecords == (NumRecords + 1)..(NumRecords + NumUnknown)

\* geographic identifiers: four 16-bit words, most significant first
G0 == <<0, 0, 1, 3>>

G1 == <<1, 0, 1, 3>>

G2 == <<2, 0, 1, 3>>

\* link = 0xffff & (gid >> 48)
ShiftRight48(gid) == <<0, 0, 0, gid[1]>>

And0xffff(gid) == gid[4] % 65536

LinkOf(gid) == And0xffff(ShiftRight48(gid))

\* One fragment per link in a record (spec section 3).  Record layouts:
\* both links, link 0 with a foreign link 2, and no fragment at all.
GeoIdsOf(rec) ==
    CASE rec % 3 = 1 -> {G0, G1}
      [] rec % 3 = 2 -> {G2, G0}
      [] OTHER       -> {}

\* ADC words of one fragment: every cell of the file holds a different,
\* non-zero value
AdcWord(rec, gid, i, ch) == ((rec * 4 + LinkOf(gid)) * 8 + i) * channels_per_link + ch + 1

Fragment(rec, gid, n) ==
    [rows |-> n,
     adc  |-> [i \in 0..(n - 1) |-> [ch \in 0..(channels_per_link - 1) |-> AdcWord(rec, gid, i, ch)]]]

\* every fragment of a record has the same number of samples (spec section 3)
SamplesOf(rec) == 1 + (rec % MaxSamples)

CaptureFile ==
    [records |-> Records,
     geo     |-> [rec \in Records |-> GeoIdsOf(rec)],
     frag    |-> [rec \in Records |->
                    [gid \in GeoIdsOf(rec) |-> Fragment(rec, gid, SamplesOf(rec))]]]

\* HDF5RawDataFile.get_all_record_ids
get_all_record_ids(h5) == h5.records

\* HDF5RawDataFile.get_geo_ids: the identifiers of a record; the order in
\* which they are enumerated is the reader's, any order is possible
GeoIdOrders(h5, rec) ==
    IF rec \in h5.records
    THEN {s \in [1..Cardinality(h5.geo[rec]) -> h5.geo[rec]] :
             \A i, j \in DOMAIN s : i # j => s[i] # s[j]}
    ELSE {<<>>}

\* HDF5RawDataFile.get_frag
get_frag(h5, rec, gid) == h5.frag[rec][gid]

\* rawdatautils.unpack.wibeth.np_array_adc
np_array_adc(frag) == frag.adc

Shape0(frag) == frag.rows

----------------------------------------------------------------------------
(* numpy *)

\* np.arange(lo, hi)
Arange(lo, hi) == [k \in 1..(hi - lo) |-> lo + k - 1]

\* np.zeros((rows, cols))
Zeros(rows, cols) == [i \in 0..(rows - 1) |-> [p \in 0..(cols - 1) |-> 0]]

\* mutant: the table read forwards, the position a[x] instead of the
\* positions holding x
WhereForward(a, x) == IF x \in DOMAIN a THEN {a[x]} ELSE {}

\* np.where(a == x)[0]: the positions holding x
Where(a, x) == {p \in DOMAIN a : a[p] = x}

\* adcs[:, p] = column, row by row
RECURSIVE AssignColumn(_, _, _, _)
AssignColumn(data, p, column, i) ==
    IF i \notin DOMAIN data THEN data
    ELSE AssignColumn([data EXCEPT ![i][p] = column[i]], p, column, i + 1)

\* adcs[:, mapped] = column.reshape(-1, 1)
RECURSIVE AssignColumns(_, _, _)
AssignColumns(data, mapped, column) ==
    IF mapped = {} THEN data
    ELSE LET p == CHOOSE q \in mapped : TRUE
         IN  AssignColumns(AssignColumn(data, p, column, 0), mapped \ {p}, column)

\* a valid index of an axis of length n, negative indices count from the end
IndexOk(m, n) == m >= -n /\ m < n

WrapIndex(m, n) == IF m < 0 THEN m + n ELSE m

\* adcs[:, mask] for an integer mask: a 1-D array
TakeColumn(arr, m) ==
    IF ~IndexOk(m, arr.shape[2]) THEN Raise("IndexError")
    ELSE Array1(arr.shape[1],
                [i \in 0..(arr.shape[1] - 1) |-> arr.data[i][WrapIndex(m, arr.shape[2])]])

\* adcs[:, mask] for an integer array mask: a 2-D array, one column per entry
TakeColumns(arr, mask) ==
    IF \E k \in 1..Len(mask) : ~IndexOk(mask[k], arr.shape[2]) THEN Raise("IndexError")
    ELSE Array2(arr.shape[1], Len(mask),
                [i \in 0..(arr.shape[1] - 1) |->
                    [j \in 0..(Len(mask) - 1) |-> arr.data[i][WrapIndex(mask[j + 1], arr.shape[2])]]])

\* mutant: the new part is put in front
HstackReversed(a, b) ==
    Array2(a.shape[1], a.shape[2] + b.shape[2],
           [i \in 0..(a.shape[1] - 1) |->
               [j \in 0..(a.shape[2] + b.shape[2] - 1) |->
                   IF j < b.shape[2] THEN b.data[i][j] ELSE a.data[i][j - b.shape[2]]]])

\* np.hstack((a, b)) of two 2-D arrays with the same number of rows
Hstack(a, b) ==
    Array2(a.shape[1], a.shape[2] + b.shape[2],
           [i \in 0..(a.shape[1] - 1) |->
               [j \in 0..(a.shape[2] + b.shape[2] - 1) |->
                   IF j < a.shape[2] THEN a.data[i][j] ELSE b.data[i][j - a.shape[2]]]])

----------------------------------------------------------------------------
(* Data._extract *)

\* the masks built by the helpers: an integer (scalar) or an integer array
ScalarMask(m) == [scalar |-> TRUE, idx |-> <<m>>]

ArrayMask(seq) == [scalar |-> FALSE, idx |-> seq]

\* for channel in range(self._channels_per_link): ...
\* (an array without rows has nothing to assign; the test also makes the
\* array be evaluated before the next iteration)
RECURSIVE CopyChannels(_, _, _, _, _)
CopyChannels(data, map, link, tmp_adc, channel) ==
    IF channel >= channels_per_link \/ DOMAIN data = {} THEN data
    ELSE LET mapped_channel == Where(map, link * 64 + channel)
             column == [i \in DOMAIN tmp_adc |-> tmp_adc[i][channel]]
         IN  CopyChannels(AssignColumns(data, mapped_channel, column),
                          map, link, tmp_adc, channel + 1)

\* mutant: the output is allocated afresh for every fragment
AssembleFragmentRealloc(adcs, h5, map, record, gid) ==
    LET frag == get_frag(h5, record, gid)
        link == LinkOf(gid)
        tmp_adc == np_array_adc(frag)
        alloc == Array2(Shape0(frag), 128, Zeros(Shape0(frag), 128))
    IN  Array2(alloc.shape[1], alloc.shape[2], CopyChannels(alloc.data, map, link, tmp_adc, 0))

\* the body of "for gid in geo_ids" for one identifier
AssembleFragment(adcs, h5, map, record, gid) ==
    LET frag == get_frag(h5, record, gid)
        link == LinkOf(gid)
        tmp_adc == np_array_adc(frag)
        alloc == IF adcs.kind = "None" THEN Array2(Shape0(frag), 128, Zeros(Shape0(frag), 128))
                 ELSE adcs
    IN  Array2(alloc.shape[1], alloc.shape[2], CopyChannels(alloc.data, map, link, tmp_adc, 0))

\* for gid in geo_ids: ...
RECURSIVE AssembleFragments(_, _, _, _, _, _)
AssembleFragments(adcs, h5, map, record, geo_ids, k) ==
    IF k > Len(geo_ids) THEN adcs
    ELSE AssembleFragments(AssembleFragment(adcs, h5, map, record, geo_ids[k]),
                           h5, map, record, geo_ids, k + 1)

\* return adcs[:, mask]
ApplyMask(adcs, mask) ==
    IF adcs.kind = "None" THEN Raise("TypeError")    \* None is not subscriptable
    ELSE IF mask.scalar THEN TakeColumn(adcs, mask.idx[1])
    ELSE TakeColumns(adcs, mask.idx)

\* self is [h5, map, last, geo_ids]: the file, the channel map, the
\* _last_extracted_record slot, and the order get_geo_ids enumerates in
Extract_(self, record, mask) ==
    ApplyMask(AssembleFragments(None, self.h5, self.map, record, self.geo_ids, 1), mask)

----------------------------------------------------------------------------
(* Data._extract_helper, one operator per registered type *)

\* default implementation (NoneType and every unregistered type)
ExtractHelperNone(self) ==
    Extract_(self, self.last, ArrayMask(Arange(0, 128)))

\* int
ExtractHelperInt(self, arg) ==
    Extract_(self, self.last, ScalarMask(arg))

CollectionNames == {<<"c", "o", "l", "l", "e", "c", "t", "i", "o", "n">>, <<"c", "o", "l", "l", "e", "c", "t">>, <<"c">>}

Induction1Names == {<<"i", "n", "d", "u", "c", "t", "i", "o", "n", "1">>, <<"i", "n", "d", "u", "c", "t", "i", "o", "n", " ", "1">>, <<"i", "1">>, <<"1">>}

Induction2Names == {<<"i", "n", "d", "u", "c", "t", "i", "o", "n", "2">>, <<"i", "n", "d", "u", "c", "t", "i", "o", "n", " ", "2">>, <<"i", "2">>, <<"2">>}

\* mutant: an unmatched name falls back to the collection plane
ExtractHelperStrDefault(self, text) ==
    LET arg == StrLower(text)
    IN  IF arg \in Induction1Names THEN Extract_(self, self.last, ArrayMask(Arange(48, 88)))
        ELSE IF arg \in Induction2Names THEN Extract_(self, self.last, ArrayMask(Arange(88, 128)))
        ELSE Extract_(self, self.last, ArrayMask(Arange(0, 48)))

\* str; an unmatched name leaves the local mask unbound, and reading it for
\* the call of _extract raises UnboundLocalError
ExtractHelperStr(self, text) ==
    LET arg == StrLower(text)
    IN  IF arg \in CollectionNames THEN Extract_(self, self.last, ArrayMask(Arange(0, 48)))
        ELSE IF arg \in Induction1Names THEN Extract_(self, self.last, ArrayMask(Arange(48, 88)))
        ELSE IF arg \in Induction2Names THEN Extract_(self, self.last, ArrayMask(Arange(88, 128)))
        ELSE Raise("UnboundLocalError")

\* type(s) == str for an element s met while iterating the container: the
\* elements of an ndarray are numpy scalars (np.str_, np.int64), never str
TypeIsStr(container, elem) == container # "ndarray" /\ elem.type = "str"

\* mutant: np.any in place of np.all
AnyStrings(arg) == \E k \in 1..Len(arg.elems) : TypeIsStr(arg.type, arg.elems[k])

\* strings = [...]; np.all(strings)
AllStrings(arg) == \A k \in 1..Len(arg.elems) : TypeIsStr(arg.type, arg.elems[k])

\* for plane in arg: adcs = first result, then np.hstack((adcs, next result))
RECURSIVE PlaneGroup(_, _, _, _)
PlaneGroup(self, planes, adcs, k) ==
    IF k > Len(planes) THEN adcs
    ELSE LET part == ExtractHelperStr(self, planes[k].sval)
         IN  IF IsRaise(part) THEN part
             ELSE IF adcs.kind = "None" THEN PlaneGroup(self, planes, part, k + 1)
             ELSE PlaneGroup(self, planes, Hstack(adcs, part), k + 1)

\* np.array(arg, dtype='int') succeeds: a set is not a sequence (TypeError),
\* and text converts only when it is an integer literal (ValueError otherwise)
CoerceOk(arg) ==
    /\ arg.type # "set"
    /\ \A k \in 1..Len(arg.elems) :
          arg.elems[k].type = "str" => IsIntLiteral(arg.elems[k].sval)

CoerceInt(arg) ==
    [k \in 1..Len(arg.elems) |->
        IF arg.elems[k].type = "str" THEN IntOfStr(arg.elems[k].sval) ELSE arg.elems[k].ival]

\* set, list, tuple, range, np.ndarray
ExtractHelperArray(self, arg) ==
    IF Len(arg.elems) <= 3 /\ AllStrings(arg)
    THEN PlaneGroup(self, arg.elems, None, 1)
    ELSE IF ~CoerceOk(arg) THEN Raise("TypeError")
    ELSE Extract_(self, self.last, ArrayMask(CoerceInt(arg)))

ArrayTypes == {"set", "list", "tuple", "range", "ndarray"}

\* functools.singledispatchmethod: dispatch on type(arg)
ExtractHelper(self, arg) ==
    IF arg.type = "int" THEN ExtractHelperInt(self, arg.ival)
    ELSE IF arg.type = "str" THEN ExtractHelperStr(self, arg.sval)
    ELSE IF arg.type \in ArrayTypes THEN ExtractHelperArray(self, arg)
    ELSE ExtractHelperNone(self)

----------------------------------------------------------------------------
(* The selectors handed to extract *)

IntSel(n) == [type |-> "int", ival |-> n, sval |-> <<>>, elems |-> <<>>]

StrSel(t) == [type |-> "str", ival |-> 0, sval |-> t, elems |-> <<>>]

NoneSel == [type |-> "NoneType", ival |-> 0, sval |-> <<>>, elems |-> <<>>]

FloatSel == [type |-> "float", ival |-> 5, sval |-> <<>>, elems |-> <<>>]

Coll(container, elems) == [type |-> container, ival |-> 0, sval |-> <<>>, elems |-> elems]

IntElem(n) == [type |-> "int", ival |-> n, sval |-> <<>>]

StrElem(t) == [type |-> "str", ival |-> 0, sval |-> t]

\* plane names and aliases as callers write them, in several letter cases
CollectionTexts ==
    {<<"c", "o", "l", "l", "e", "c", "t", "i", "o", "n">>,
     <<"c", "o", "l", "l", "e", "c", "t">>,
     <<"c">>,
     <<"C", "O", "L", "L", "E", "C", "T", "I", "O", "N">>,
     <<"C", "o", "l", "l", "e", "c", "t">>,
     <<"C">>,
     <<"C", "o", "l", "l", "e", "c", "t", "i", "o", "n">>}

Induction1Texts ==
    {<<"i", "n", "d", "u", "c", "t", "i", "o", "n", "1">>,
     <<"i", "n", "d", "u", "c", "t", "i", "o", "n", " ", "1">>,
     <<"i", "1">>,
     <<"1">>,
     <<"I", "n", "d", "u", "c", "t", "i", "o", "n", "1">>,
     <<"I", "N", "D", "U", "C", "T", "I", "O", "N", " ", "1">>,
     <<"I", "1">>}

Induction2Texts ==
    {<<"i", "n", "d", "u", "c", "t", "i", "o", "n", "2">>,
     <<"i", "n", "d", "u", "c", "t", "i", "o", "n", " ", "2">>,
     <<"i", "2">>,
     <<"2">>,
     <<"I", "n", "D", "u", "C", "t", "I", "o", "N", "2">>,
     <<"I", "n", "d", "u", "c", "t", "i", "o", "n", " ", "2">>,
     <<"I", "2">>}

PlaneTexts == CollectionTexts \cup Induction1Texts \cup Induction2Texts

\* texts that name no plane
OtherTexts ==
    {<<>>,
     <<"f", "o", "o">>,
     <<"x">>,
     <<"3">>,
     <<"c", "o", "l", "l", "e", "c", "t", "i", "o", "n", "s">>,
     <<"i", "n", "d", "u", "c", "t", "i", "o", "n", "3">>,
     <<"i", "n", "d", "u", "c", "t", "i", "o", "n", " ", " ", "1">>,
     <<"w", "i", "r", "e">>}

\* integer selectors: the ends of the planes, and indices around both ends of
\* the axis
IntSelectors == {IntSel(n) : n \in {-129, -128, -1, 0, 5, 47, 48, 87, 88, 127, 128}}

TextSelectors == {StrSel(t) : t \in PlaneTexts \cup OtherTexts}

\* the elements collections are built from
CollElems ==
    {IntElem(5),
     StrElem(<<"C", "o", "l", "l", "e", "c", "t", "i", "o", "n">>),
     StrElem(<<"1">>), StrElem(<<"f", "o", "o">>)}

SeqsUpTo(S, n) == UNION {[1..k -> S] : k \in 0..n}

\* what each container type can hold: a set has no equal elements, an
\* ndarray has one element type, a range is an arithmetic progression
WellFormed(container, elems) ==
    CASE container = "set" ->
            \A i, j \in 1..Len(elems) : i # j => elems[i] # elems[j]
      [] container = "ndarray" ->
            \A i, j \in 1..Len(elems) : elems[i].type = elems[j].type
      [] container = "range" ->
            /\ \A i \in 1..Len(elems) : elems[i].type = "int"
            /\ \A i \in 1..(Len(elems) - 1) : elems[i + 1].ival # elems[i].ival
            /\ \A i \in 2..(Len(elems) - 1) :
                  elems[i + 1].ival - elems[i].ival = elems[i].ival - elems[i - 1].ival
      [] OTHER -> TRUE

CollSelectors ==
    {Coll(c, e) : c \in ArrayTypes, e \in SeqsUpTo(CollElems, MaxCollLen)}

\* collections longer than the enumerated ones: one element repeated
LongSelectors ==
    {Coll(c, [k \in 1..(MaxCollLen + 1) |-> e]) : c \in {"list", "tuple", "ndarray"}, e \in CollElems}

Selectors ==
    {NoneSel, FloatSel} \cup IntSelectors \cup TextSelectors
    \cup {s \in CollSelectors \cup LongSelectors : WellFormed(s.type, s.elems)}

\* *args of extract: nothing, or one selector
ArgLists == {<<>>} \cup {<<s>> : s \in Selectors}

----------------------------------------------------------------------------
(* The session: state, construction and operations *)

\* the caller is between two calls
NoCall == [op |-> "idle", record |-> NoRecord, args |-> <<>>, geo_ids |-> <<>>]

\* Data.__init__
Init ==
    /\ _h5_file = CaptureFile
    /\ _records = get_all_record_ids(_h5_file)
    /\ _last_extracted_record = NoRecord
    /\ _channel_map = ChannelMapInit
    /\ call = NoCall
    /\ result = None

\* Data.get_records
get_records ==
    /\ call.op = "idle"
    /\ call' = [op |-> "get_records", record |-> NoRecord, args |-> <<>>, geo_ids |-> <<>>]
    /\ result' = Value("list", "", 0, <<>>, <<>>, _records)
    /\ UNCHANGED <<_h5_file, _records, _last_extracted_record, _channel_map>>

\* if len(args) == 0: arg = None  else: arg = args[0]
ArgOf(args) == IF Len(args) = 0 THEN NoneSel ELSE args[1]

Self(last, geo_ids) ==
    [h5 |-> _h5_file, map |-> _channel_map, last |-> last, geo_ids |-> geo_ids]

\* mutant: the slot is assigned before the membership test
extractAssignFirst(record, args, geo_ids) ==
    /\ call.op = "idle"
    /\ call' = [op |-> "extract", record |-> record, args |-> args, geo_ids |-> geo_ids]
    /\ _last_extracted_record' = record
    /\ IF record \in _records
       THEN result' = ExtractHelper(Self(record, geo_ids), ArgOf(args))
       ELSE result' = Raise("IndexError")
    /\ UNCHANGED <<_h5_file, _records, _channel_map>>

\* Data.extract: the whole call, up to its return value or exception
extract(record, args, geo_ids) ==
    /\ call.op = "idle"
    /\ call' = [op |-> "extract", record |-> record, args |-> args, geo_ids |-> geo_ids]
    /\ IF record \in _records
       THEN /\ _last_extracted_record' = record
            /\ result' = ExtractHelper(Self(record, geo_ids), ArgOf(args))
       ELSE /\ result' = Raise("IndexError")
            /\ UNCHANGED _last_extracted_record
    /\ UNCHANGED <<_h5_file, _records, _channel_map>>

\* the synchronous caller takes the returned value (or the exception) and
\* is free to call again; the session keeps nothing of the call but the slot
caller_continues ==
    /\ call.op # "idle"
    /\ call' = NoCall
    /\ result' = None
    /\ UNCHANGED <<_h5_file, _records, _last_extracted_record, _channel_map>>

Next ==
    \/ get_records
    \/ \E record \in Records \cup UnknownRecords, args \in ArgLists :
          \E geo_ids \in GeoIdOrders(_h5_file, record) : extract(record, args, geo_ids)
    \/ caller_continues

Spec == Init /\ [][Next]_vars

----------------------------------------------------------------------------
(* Properties *)

Called == call.op = "extract"

KnownCall == Called /\ call.record \in _records

UnknownCall == Called /\ call.record \notin _records

CallArg == ArgOf(call.args)

\* what extract(record) without a selector returns for the call's record
FullResult == ExtractHelperNone(Self(call.record, call.geo_ids))

\* an array is exactly the columns idx (a sequence of positions) of full
IsColumnsOf(arr, full, idx) ==
    /\ IsArray(arr) /\ arr.ndim = 2
    /\ arr.shape = <<full.shape[1], Len(idx)>>
    /\ \A i \in 0..(full.shape[1] - 1) : \A j \in 0..(Len(idx) - 1) :
          arr.data[i][j] = full.data[i][idx[j + 1]]

\* the logical range of a plane text, from the table of spec section 4.1
PlaneRange(t) ==
    IF t \in CollectionTexts THEN [k \in 1..48 |-> k - 1]
    ELSE IF t \in Induction1Texts THEN [k \in 1..40 |-> 47 + k]
    ELSE [k \in 1..40 |-> 87 + k]

RECURSIVE PlaneRanges(_, _)
PlaneRanges(elems, k) ==
    IF k = 0 THEN <<>> ELSE PlaneRanges(elems, k - 1) \o PlaneRange(elems[k].sval)

\* C1: an extract of a record that is not in the record set raises
\* IndexError, returns nothing and leaves the last-extracted-record slot as
\* it was before the call.
C1_UnknownRecordRaises ==
    [][(call.op = "idle" /\ call'.op = "extract" /\ call'.record \notin _records)
          => (result' = Raise("IndexError")
              /\ _last_extracted_record' = _last_extracted_record)]_vars

C1_Witness ==
    /\ UnknownCall
    /\ _last_extracted_record \in _records
    /\ result = Raise("IndexError")

\* C2: for a record made of one fragment of link 0 and one of link 1,
\* extract without a selector returns 128 columns, and column p holds in-link
\* column (map[p] mod 64) of the fragment of link (map[p] div 64).
C2_FullMatrixFollowsChannelMap ==
    (/\ KnownCall
     /\ CallArg.type = "NoneType"
     /\ Cardinality(_h5_file.geo[call.record]) = 2
     /\ {LinkOf(g) : g \in _h5_file.geo[call.record]} = {0, 1})
    => /\ IsArray(result) /\ result.ndim = 2
       /\ result.shape = <<SamplesOf(call.record), 128>>
       /\ \A i \in 0..(SamplesOf(call.record) - 1) : \A p \in 0..127 :
             LET g == CHOOSE h \in _h5_file.geo[call.record] :
                         LinkOf(h) = _channel_map[p] \div 64
             IN  result.data[i][p] =
                    _h5_file.frag[call.record][g].adc[i][_channel_map[p] % 64]

C2_Witness ==
    /\ KnownCall /\ call.args = <<>>
    /\ {LinkOf(g) : g \in _h5_file.geo[call.record]} = {0, 1}
    /\ IsArray(result) /\ result.shape[2] = 128
    /\ result.data[0][0] = AdcWord(call.record, G1, 0, 48)

\* C3: in every reachable state the channel map is a permutation of 0..127.
C3_ChannelMapIsPermutation ==
    /\ DOMAIN _channel_map = 0..127
    /\ \A p \in 0..127 : _channel_map[p] \in 0..127
    /\ \A p, q \in 0..127 : p # q => _channel_map[p] # _channel_map[q]

C3_Witness ==
    /\ KnownCall /\ IsArray(result)
    /\ _last_extracted_record = call.record
    /\ \A x \in 0..127 : \E p \in 0..127 : _channel_map[p] = x

C5_SingleIndexIsOneColumnMatrix ==
    (KnownCall /\ IsArray(FullResult) /\ CallArg.type = "int" /\ CallArg.ival \in 0..127)
    => /\ IsArray(result) /\ result.ndim = 2
       /\ result.shape = <<FullResult.shape[1], 1>>
       /\ \A i \in 0..(FullResult.shape[1] - 1) :
             result.data[i][0] = FullResult.data[i][CallArg.ival]

\* a text selector that names no plane, alone or as an element of a list,
\* tuple or set of one to three texts
HasUnknownPlane(arg) ==
    \/ arg.type = "str" /\ arg.sval \in OtherTexts
    \/ /\ arg.type \in {"list", "tuple", "set"}
       /\ Len(arg.elems) \in 1..3
       /\ \A k \in 1..Len(arg.elems) : arg.elems[k].type = "str"
       /\ \E k \in 1..Len(arg.elems) : arg.elems[k].sval \in OtherTexts

C7_NoFragmentsRaises ==
    (KnownCall /\ _h5_file.geo[call.record] = {}) => IsRaise(result)

\* a collection of at most three elements holding both plane-name text and
\* integers
IsMixedPlanesAndInts(arg) ==
    /\ arg.type \in ArrayTypes
    /\ Len(arg.elems) <= 3
    /\ \E k \in 1..Len(arg.elems) : arg.elems[k].type = "int"
    /\ \E k \in 1..Len(arg.elems) :
          arg.elems[k].type = "str" /\ arg.elems[k].sval \in PlaneTexts
    /\ \A k \in 1..Len(arg.elems) :
          arg.elems[k].type = "str" => arg.elems[k].sval \in PlaneTexts

\* the plane aliases that are also integer literals
NumeralAliases == {<<"1">>, <<"2">>}

\* C8 (as claimed): a collection of at most three elements mixing plane-name
\* text with integers fails with a type error.
C8_MixedCollectionIsTypeError ==
    (KnownCall /\ IsMixedPlanesAndInts(CallArg)) => result = Raise("TypeError")

\* C8 (amended): a collection of at most three elements mixing plane-name
\* text with integers fails with a type error when it is a set or when one of
\* its texts is not the numeral alias "1" or "2".
C8_MixedCollectionIsTypeErrorUnlessNumerals ==
    (/\ KnownCall /\ IsMixedPlanesAndInts(CallArg)
     /\ \/ CallArg.type = "set"
        \/ \E k \in 1..Len(CallArg.elems) :
              CallArg.elems[k].type = "str" /\ CallArg.elems[k].sval \notin NumeralAliases)
    => result = Raise("TypeError")

C8_Witness ==
    /\ KnownCall /\ IsArray(FullResult)
    /\ CallArg.type = "list" /\ Len(CallArg.elems) = 2
    /\ CallArg.elems[1].type = "str" /\ CallArg.elems[1].sval \in CollectionTexts
    /\ CallArg.elems[2].type = "int"
    /\ result = Raise("TypeError")

SupportedTypes == {"NoneType", "int", "str"} \cup ArrayTypes

\* C10 (as claimed): for a record with at least one fragment and a selector
\* of a supported shape, extract raises or returns an array, never None.
C10_NeverReturnsNone ==
    (KnownCall /\ _h5_file.geo[call.record] # {} /\ CallArg.type \in SupportedTypes)
    => (IsRaise(result) \/ IsArray(result))

====
